---- MODULE Spec2Model ----
(***************************************************************************)
(* A model of the Phala mining pallet (pallets/phala/src/mining.rs): the   *)
(* miner state machine, the miner <-> worker binding tables, the stake     *)
(* table, the online-miner counter, the session counter, heartbeat         *)
(* (benchmark) reports and gatekeeper settlement batches; and of the       *)
(* optional secret protocol of the enclave's message channel               *)
(* (standalone/pruntime/enclave/src/msg_channel.rs).                       *)
(*                                                                         *)
(* Storage maps are partial functions: a key is present iff it is in the   *)
(* DOMAIN.  Every dispatchable or handler is one operator from the storage *)
(* before the call to the result, the storage after the call and the       *)
(* messages, events and observer calls it produced, in order.  The state   *)
(* is the storage and the clock; what a call returns and emits leaves the  *)
(* pallet and is read off the handler's operator.                          *)
(***************************************************************************)
EXTENDS Integers, Sequences, FiniteSets, TLC

VARIABLES
    miners,          \* Miners: AccountId -> MinerInfo
    minerBindings,   \* MinerBindings: AccountId -> WorkerPublicKey
    workerBindings,  \* WorkerBindings: WorkerPublicKey -> AccountId
    stakes,          \* Stakes: AccountId -> Balance
    onlineMiners,    \* OnlineMiners: u32
    nextSessionId,   \* NextSessionId: u32
    coolDownPeriod,  \* CoolDownPeriod: u64 (seconds)
    now,             \* the injected clock, now_sec()
    debugBuild,      \* the build profile: with overflow checks and debug assertions (dev)
                     \* or without them (release)
    mq,              \* the message channel of the enclave: the messages in flight, in order
    sequence,        \* the sequence number the channel gives the next message
    received         \* what the last PeelingReceiver::try_next returned

\* The variables of the pallet and those of the enclave's channel.
palletVars == <<miners, minerBindings, workerBindings, stakes, onlineMiners, nextSessionId,
                coolDownPeriod, now, debugBuild>>
channelVars == <<mq, sequence, received>>
vars == <<miners, minerBindings, workerBindings, stakes, onlineMiners, nextSessionId,
          coolDownPeriod, now, debugBuild, mq, sequence, received>>

(***************************************************************************)
(* Bounds of the model.                                                    *)
(***************************************************************************)
\* Fractional bits of the fixed-point type of the model (U64F64 has 64; the
\* model keeps the truncating arithmetic on a narrower fraction).
FracBits == 4
\* The clock value at genesis, and the number of seconds the clock advances.
GenesisTime == 1
MaxElapsed == 1
\* The cool down period written at genesis, in seconds.
GenesisCoolDown == 1
\* The largest iteration counter a heartbeat reports.
MaxIterations == 1
\* The number of mining sessions that are started.
MaxSessions == 2
\* The reward, in tokens, a miner record accumulates.
MaxReward == 1
\* How far below zero the wrapping OnlineMiners counter is followed.
MaxUnderflow == 1
\* The small report times and iteration counters given to Benchmark::update.
MaxReportTime == 3
MaxReportIterations == 3
\* The largest of the consecutive miner counts a challenge is computed for.
MaxOnlineMiners == 60
\* The most messages in flight in the channel, and the most ever sent.
MaxQueue == 2
MaxSent == 3

AccountIds == {"m1", "m2"}
\* w1 and w2 are registered and benchmarked, w3 is registered without an
\* initial score, w4 is not registered.
WorkerKeys == {"w1", "w2", "w3", "w4"}

\* u32 arithmetic: the model keeps 30 of the 32 bits, the widest power of two
\* whose products with the small factors of the code stay inside TLC's integers.
U32Mod == 2 ^ 30

(***************************************************************************)
(* Partial maps.                                                           *)
(***************************************************************************)
Insert(f, k, v) == (k :> v) @@ f
Remove(f, k) == [x \in (DOMAIN f) \ {k} |-> f[x]]
EmptyMap == [x \in {} |-> 0]

(***************************************************************************)
(* Fixed point (fixed::types::U64F64): a value is its bit pattern, an      *)
(* integer; multiply and divide truncate.                                  *)
(***************************************************************************)
One == 2 ^ FracBits
FromNum(n) == n * One
FpMul(a, b) == (a * b) \div One
FpDiv(a, b) == (a * One) \div b
Min(a, b) == IF a <= b THEN a ELSE b

\* The integer square root, two bits at a time.
RECURSIVE ISqrt(_)
ISqrt(x) ==
    IF x < 2 THEN x
    ELSE LET r == 2 * ISqrt(x \div 4)
         IN  IF (r + 1) * (r + 1) <= x THEN r + 1 ELSE r
\* FixedSqrt::sqrt: the largest fixed-point value whose square is at most a
FpSqrt(a) == ISqrt(a * One)

(***************************************************************************)
(* Balances (crate::balance_convert::FixedPointConvert): a balance counts  *)
(* the smallest currency unit, DOLLARS of them to one token.               *)
(***************************************************************************)
DOLLARS == 100
ToFixed(balance) == (balance * One) \div DOLLARS
FromFixed(fixed) == (fixed * DOLLARS) \div One
FromBits(bits) == FromFixed(bits)

(***************************************************************************)
(* The worker registry (crate::registry::Workers).                         *)
(***************************************************************************)
\* An Option is a sequence: <<>> is None, <<x>> is Some(x).
None == <<>>
Some(x) == <<x>>
Workers ==
    [w \in {"w1", "w2", "w3"} |->
        CASE w = "w1" -> [initial_score |-> Some(1000), confidence_level |-> 1]
          [] w = "w2" -> [initial_score |-> Some(1000), confidence_level |-> 4]
          [] w = "w3" -> [initial_score |-> None, confidence_level |-> 1]]

(***************************************************************************)
(* Tokenomic parameters: the genesis defaults.                             *)
(***************************************************************************)
TokenomicParameters ==
    [pha_rate |-> FromNum(1),
     v_max |-> FromNum(30000),
     rig_k |-> (3 * One) \div 10,
     rig_b |-> FromNum(0),
     re |-> (3 * One) \div 2,
     k |-> FromNum(100)]

confidence_score(confidence_level) ==
    LET SCORES == <<FromNum(1), FromNum(1), FromNum(1), (8 * One) \div 10, (7 * One) \div 10>>
    IN  IF 1 <= confidence_level /\ confidence_level <= 5
        THEN SCORES[confidence_level]
        ELSE SCORES[1]

rig_cost(p) ==
    LET cost_k == TokenomicParameters.rig_k
        cost_b == TokenomicParameters.rig_b
        pha_rate == TokenomicParameters.pha_rate
    IN  FpDiv(FpMul(cost_k, FromNum(p)) + cost_b, pha_rate)

minimal_stake(p) == FromFixed(FpMul(TokenomicParameters.k, FpSqrt(FromNum(p))))

ve(s, p, confidence_level) ==
    LET f1 == FromNum(1)
        score == confidence_score(confidence_level)
        re == TokenomicParameters.re
        tweaked_re == FpMul(re - f1, score) + f1
    IN  FpMul(tweaked_re, ToFixed(s) + rig_cost(p))

v_max == TokenomicParameters.v_max

(***************************************************************************)
(* The storage of the pallet as one value, and the result of a call.       *)
(***************************************************************************)
Chain ==
    [miners |-> miners, minerBindings |-> minerBindings, workerBindings |-> workerBindings,
     stakes |-> stakes, onlineMiners |-> onlineMiners, nextSessionId |-> nextSessionId]

Ret(res, c, o) == [res |-> res, chain |-> c, out |-> o]
\* An error return or a panic of a call that started from storage c.
Fail(res, c) == Ret(res, c, <<>>)

Msg(worker, event) == [kind |-> "message", to |-> worker, event |-> event]
Event(name, args) == [kind |-> "event", name |-> name, args |-> args]

ensure_worker_bound(c, pubkey) == pubkey \in DOMAIN c.workerBindings
ensure_miner_bound(c, miner) == miner \in DOMAIN c.minerBindings

can_unbind(state) == state \in {"Ready", "MiningCoolingDown"}
can_settle(state) ==
    state \in {"MiningIdle", "MiningActive", "MiningCoolingDown", "MiningUnresponsive"}

FreshMinerInfo ==
    [state |-> "Ready", ve |-> 0, v |-> 0, v_updated_at |-> now,
     benchmark |-> [p_instant |-> 0, iterations |-> 0, mining_start_time |-> now,
                    updated_at |-> 0],
     cool_down_start |-> 0,
     stats |-> [total_reward |-> 0]]

\* bind without the check that the worker is not bound yet
bind_unchecked_worker(c, miner, pubkey) ==
    IF pubkey \notin DOMAIN Workers THEN Fail("WorkerNotRegistered", c)
    ELSE IF Workers[pubkey].initial_score = None THEN Fail("BenchmarkMissing", c)
    ELSE IF ensure_miner_bound(c, miner) THEN Fail("DuplicateBoundMiner", c)
    ELSE Ret("Ok",
             [c EXCEPT !.minerBindings = Insert(@, miner, pubkey),
                       !.workerBindings = Insert(@, pubkey, miner),
                       !.miners = Insert(@, miner, FreshMinerInfo)],
             <<Event("MinerBound", <<miner, pubkey>>)>>)

\* bind that writes the miner's binding before it checks the worker's
bind_early_write(c, miner, pubkey) ==
    IF pubkey \notin DOMAIN Workers THEN Fail("WorkerNotRegistered", c)
    ELSE IF Workers[pubkey].initial_score = None THEN Fail("BenchmarkMissing", c)
    ELSE IF ensure_miner_bound(c, miner) THEN Fail("DuplicateBoundMiner", c)
    ELSE IF ensure_worker_bound(c, pubkey)
         THEN Ret("DuplicateBoundMiner",
                  [c EXCEPT !.minerBindings = Insert(@, miner, pubkey)], <<>>)
    ELSE Ret("Ok",
             [c EXCEPT !.minerBindings = Insert(@, miner, pubkey),
                       !.workerBindings = Insert(@, pubkey, miner),
                       !.miners = Insert(@, miner, FreshMinerInfo)],
             <<Event("MinerBound", <<miner, pubkey>>)>>)

\* bind that resets an existing record in place and keeps its stats
bind_keep_stats(c, miner, pubkey) ==
    IF pubkey \notin DOMAIN Workers THEN Fail("WorkerNotRegistered", c)
    ELSE IF Workers[pubkey].initial_score = None THEN Fail("BenchmarkMissing", c)
    ELSE IF ensure_miner_bound(c, miner) THEN Fail("DuplicateBoundMiner", c)
    ELSE IF ensure_worker_bound(c, pubkey) THEN Fail("DuplicateBoundMiner", c)
    ELSE Ret("Ok",
             [c EXCEPT !.minerBindings = Insert(@, miner, pubkey),
                       !.workerBindings = Insert(@, pubkey, miner),
                       !.miners = Insert(@, miner,
                           IF miner \in DOMAIN c.miners
                           THEN [FreshMinerInfo EXCEPT !.stats = c.miners[miner].stats]
                           ELSE FreshMinerInfo)],
             <<Event("MinerBound", <<miner, pubkey>>)>>)

bind(c, miner, pubkey) ==
    IF pubkey \notin DOMAIN Workers THEN Fail("WorkerNotRegistered", c)
    ELSE IF Workers[pubkey].initial_score = None THEN Fail("BenchmarkMissing", c)
    ELSE IF ensure_miner_bound(c, miner) THEN Fail("DuplicateBoundMiner", c)
    ELSE IF ensure_worker_bound(c, pubkey) THEN Fail("DuplicateBoundMiner", c)
    ELSE Ret("Ok",
             [c EXCEPT !.minerBindings = Insert(@, miner, pubkey),
                       !.workerBindings = Insert(@, pubkey, miner),
                       !.miners = Insert(@, miner, FreshMinerInfo)],
             <<Event("MinerBound", <<miner, pubkey>>)>>)

\* `*v -= 1` and `*v += 1` on the u32 OnlineMiners: a build with overflow
\* checks panics where a build without them wraps.
DecOnlineMiners(v) == (v - 1) % U32Mod
IncOnlineMiners(v) == (v + 1) % U32Mod

\* the guard without its second conjunct
can_stop_cooling_down(state) == state # "Ready"

\* The condition stop_mining ensures of the state.
can_stop(state) == state # "Ready" /\ state # "MiningCoolingDown"

stop_mining(c, miner) ==
    IF miner \notin DOMAIN c.minerBindings THEN Fail("MinerNotBound", c)
    ELSE IF miner \notin DOMAIN c.miners THEN Fail("MinerNotFound", c)
    ELSE IF ~can_stop(c.miners[miner].state) THEN Fail("MinerNotMining", c)
    ELSE IF c.onlineMiners = 0 /\ debugBuild THEN Fail("Panic", c)
    ELSE LET worker == c.minerBindings[miner]
             miner_info == [c.miners[miner] EXCEPT !.state = "MiningCoolingDown",
                                                   !.cool_down_start = now]
         IN  Ret("Ok",
                 [c EXCEPT !.miners = Insert(@, miner, miner_info),
                           !.onlineMiners = DecOnlineMiners(@)],
                 <<Msg(worker, [name |-> "MiningStop"]), Event("MinerStopped", <<miner>>)>>)

\* unbind_miner that removes the miner's entry and leaves the worker's
unbind_miner_keep_worker(c, miner, notify) ==
    IF ~ensure_miner_bound(c, miner) THEN Fail("MinerNotBound", c)
    ELSE IF miner \notin DOMAIN c.miners THEN Fail("Panic", c)
    ELSE LET worker == c.minerBindings[miner]
             force == ~can_unbind(c.miners[miner].state)
             stopped == IF force THEN stop_mining(c, miner) ELSE Ret("Ok", c, <<>>)
         IN  IF stopped.res # "Ok" THEN Fail(stopped.res, c)
             ELSE Ret("Ok",
                      [stopped.chain EXCEPT !.minerBindings = Remove(@, miner)],
                      stopped.out
                        \o <<Event("MinerUnbound", <<miner, worker>>)>>
                        \o (IF notify
                            THEN <<[kind |-> "on_unbound", worker |-> worker, force |-> force]>>
                            ELSE <<>>))

\* unbind_miner that also deletes the miner's record
unbind_miner_drop_record(c, miner, notify) ==
    IF ~ensure_miner_bound(c, miner) THEN Fail("MinerNotBound", c)
    ELSE IF miner \notin DOMAIN c.miners THEN Fail("Panic", c)
    ELSE LET worker == c.minerBindings[miner]
             force == ~can_unbind(c.miners[miner].state)
             stopped == IF force THEN stop_mining(c, miner) ELSE Ret("Ok", c, <<>>)
         IN  IF stopped.res # "Ok" THEN Fail(stopped.res, c)
             ELSE Ret("Ok",
                      [stopped.chain EXCEPT !.minerBindings = Remove(@, miner),
                                            !.workerBindings = Remove(@, worker),
                                            !.miners = Remove(@, miner)],
                      stopped.out
                        \o <<Event("MinerUnbound", <<miner, worker>>)>>
                        \o (IF notify
                            THEN <<[kind |-> "on_unbound", worker |-> worker, force |-> force]>>
                            ELSE <<>>))

unbind_miner(c, miner, notify) ==
    IF ~ensure_miner_bound(c, miner) THEN Fail("MinerNotBound", c)
    ELSE IF miner \notin DOMAIN c.miners THEN Fail("Panic", c)
    ELSE LET worker == c.minerBindings[miner]
             force == ~can_unbind(c.miners[miner].state)
             stopped == IF force THEN stop_mining(c, miner) ELSE Ret("Ok", c, <<>>)
         IN  IF stopped.res # "Ok" THEN Fail(stopped.res, c)
             ELSE Ret("Ok",
                      [stopped.chain EXCEPT !.minerBindings = Remove(@, miner),
                                            !.workerBindings = Remove(@, worker)],
                      stopped.out
                        \o <<Event("MinerUnbound", <<miner, worker>>)>>
                        \o (IF notify
                            THEN <<[kind |-> "on_unbound", worker |-> worker, force |-> force]>>
                            ELSE <<>>))

\* the session counter written back as it was read
SameSessionId(session_id) == session_id

\* `session_id + 1` on the u32 NextSessionId.
IncSessionId(session_id) == (session_id + 1) % U32Mod

\* the comparison with the bound excluded
stake_above(stake, min_stake) == stake > min_stake

\* The condition start_mining ensures of the stake.
stake_sufficient(stake, min_stake) == stake >= min_stake

start_mining(c, miner, stake) ==
    IF miner \notin DOMAIN c.minerBindings THEN Fail("MinerNotFound", c)
    ELSE IF miner \notin DOMAIN c.miners THEN Fail("Panic", c)
    ELSE IF c.miners[miner].state # "Ready" THEN Fail("MinerNotReady", c)
    ELSE IF c.minerBindings[miner] \notin DOMAIN Workers THEN Fail("Panic", c)
    ELSE IF Workers[c.minerBindings[miner]].initial_score = None
         THEN Fail("BenchmarkMissing", c)
    ELSE LET worker == c.minerBindings[miner]
             worker_info == Workers[worker]
             p == worker_info.initial_score[1]
             min_stake == minimal_stake(p)
             ve_bits == ve(stake, p, worker_info.confidence_level)
         IN  IF ~stake_sufficient(stake, min_stake) THEN Fail("InsufficientStake", c)
             ELSE IF ~(ve_bits <= v_max) THEN Fail("TooMuchStake", c)
             ELSE IF c.onlineMiners = U32Mod - 1 /\ debugBuild THEN Fail("Panic", c)
             ELSE LET session_id == c.nextSessionId
                      info == [c.miners[miner] EXCEPT !.state = "MiningIdle",
                                                      !.ve = ve_bits,
                                                      !.v = ve_bits,
                                                      !.v_updated_at = now]
                  IN  Ret("Ok",
                          [c EXCEPT !.stakes = Insert(@, miner, stake),
                                    !.miners = Insert(@, miner, info),
                                    !.onlineMiners = IncOnlineMiners(@),
                                    !.nextSessionId = IncSessionId(session_id)],
                          <<Msg(worker, [name |-> "MiningStart", session_id |-> session_id,
                                         init_v |-> ve_bits]),
                            Event("MinerStarted", <<miner>>)>>)

\* can_reclaim without the wait
can_reclaim_any_time(miner_info) == miner_info.state = "MiningCoolingDown"

can_reclaim(miner_info) ==
    IF miner_info.state # "MiningCoolingDown" THEN FALSE
    ELSE now - miner_info.cool_down_start >= coolDownPeriod

\* reclaim that clears the stakes of every account
reclaim_clear_stakes(c, miner) ==
    IF miner \notin DOMAIN c.miners THEN Fail("MinerNotFound", c)
    ELSE IF ~can_reclaim(c.miners[miner]) THEN Fail("CoolDownNotReady", c)
    ELSE LET miner_info == [c.miners[miner] EXCEPT !.state = "Ready", !.cool_down_start = 0]
         IN  IF miner_info.ve = 0 THEN Fail("Panic", c)
             ELSE LET return_rate == Min(FpDiv(miner_info.v, miner_info.ve), FromNum(1))
                      orig_stake == IF miner \in DOMAIN c.stakes THEN c.stakes[miner] ELSE 0
                      returned == FromFixed(FpMul(return_rate, ToFixed(orig_stake)))
                      slashed == orig_stake - returned
                  IN  Ret("Ok",
                          [c EXCEPT !.miners = Insert(@, miner, miner_info),
                                    !.stakes = EmptyMap],
                          <<[kind |-> "on_reclaim", miner |-> miner,
                             orig_stake |-> orig_stake, slashed |-> slashed],
                            Event("MinerReclaimed", <<miner, orig_stake, slashed>>)>>)

reclaim(c, miner) ==
    IF miner \notin DOMAIN c.miners THEN Fail("MinerNotFound", c)
    ELSE IF ~can_reclaim(c.miners[miner]) THEN Fail("CoolDownNotReady", c)
    ELSE LET miner_info == [c.miners[miner] EXCEPT !.state = "Ready", !.cool_down_start = 0]
         IN  \* v / ve panics on a zero divisor
             IF miner_info.ve = 0 THEN Fail("Panic", c)
             ELSE LET return_rate == Min(FpDiv(miner_info.v, miner_info.ve), FromNum(1))
                      orig_stake == IF miner \in DOMAIN c.stakes THEN c.stakes[miner] ELSE 0
                      returned == FromFixed(FpMul(return_rate, ToFixed(orig_stake)))
                      slashed == orig_stake - returned
                  IN  Ret("Ok",
                          [c EXCEPT !.miners = Insert(@, miner, miner_info),
                                    !.stakes = Remove(@, miner)],
                          <<[kind |-> "on_reclaim", miner |-> miner,
                             orig_stake |-> orig_stake, slashed |-> slashed],
                            Event("MinerReclaimed", <<miner, orig_stake, slashed>>)>>)

(***************************************************************************)
(* Benchmark::update and the heartbeat handler.                            *)
(***************************************************************************)
\* update that accepts a report repeating the stored iterations
BenchmarkUpdate_accept_equal(self, updated_at, iterations, initial_score) ==
    IF updated_at <= self.updated_at \/ iterations < self.iterations
    THEN [ok |-> FALSE, benchmark |-> self]
    ELSE LET delta_iter == iterations - self.iterations
             delta_ts == updated_at - self.updated_at
             p_instant == ((delta_iter * 6) \div delta_ts) % U32Mod
             cap == ((initial_score * 12) % U32Mod) \div 10
         IN  [ok |-> TRUE,
              benchmark |-> [self EXCEPT !.updated_at = updated_at,
                                         !.iterations = iterations,
                                         !.p_instant = Min(p_instant, cap)]]

\* [ok, benchmark]: the Result and the benchmark after the call.  The u64
\* counters are followed where `delta_iter * 6` stays inside u64.
BenchmarkUpdate(self, updated_at, iterations, initial_score) ==
    IF updated_at <= self.updated_at \/ iterations <= self.iterations
    THEN [ok |-> FALSE, benchmark |-> self]
    ELSE LET delta_iter == iterations - self.iterations
             delta_ts == updated_at - self.updated_at
             p_instant == ((delta_iter * 6) \div delta_ts) % U32Mod
             cap == ((initial_score * 12) % U32Mod) \div 10
         IN  [ok |-> TRUE,
              benchmark |-> [self EXCEPT !.updated_at = updated_at,
                                         !.iterations = iterations,
                                         !.p_instant = Min(p_instant, cap)]]

\* `initial_score * 12` on u32 panics in a build with overflow checks.
BenchmarkUpdatePanics(self, updated_at, iterations, initial_score) ==
    /\ ~(updated_at <= self.updated_at \/ iterations <= self.iterations)
    /\ debugBuild
    /\ initial_score * 12 >= U32Mod

\* sender: [origin |-> "Worker", pubkey |-> w] or [origin |-> "Gatekeeper"]
on_mining_message_received(c, sender, iterations) ==
    IF sender.origin # "Worker" THEN Ret("Ok", c, <<>>)
    ELSE IF ~ensure_worker_bound(c, sender.pubkey) THEN Fail("WorkerNotBound", c)
    ELSE LET miner == c.workerBindings[sender.pubkey]
         IN  IF miner \notin DOMAIN c.miners THEN Fail("Panic", c)
             ELSE IF sender.pubkey \notin DOMAIN Workers THEN Fail("Panic", c)
             ELSE IF Workers[sender.pubkey].initial_score = None THEN Fail("Panic", c)
             ELSE LET initial_score == Workers[sender.pubkey].initial_score[1]
                      upd == BenchmarkUpdate(c.miners[miner].benchmark, now, iterations,
                                             initial_score)
                  IN  IF initial_score * 12 >= U32Mod /\ debugBuild THEN Fail("Panic", c)
                      ELSE IF ~upd.ok THEN Fail("Panic", c)
                      ELSE Ret("Ok",
                               [c EXCEPT !.miners =
                                   Insert(@, miner, [c.miners[miner] EXCEPT
                                                        !.benchmark = upd.benchmark])],
                               <<>>)

(***************************************************************************)
(* The gatekeeper's settlement batch.  A `?` that fails inside a loop      *)
(* returns with what the earlier entries wrote.                            *)
(***************************************************************************)
on_reward(stats, payout_bits) ==
    [stats EXCEPT !.total_reward = @ + FromBits(payout_bits)]

\* the offline loop with `?` on the worker's binding
RECURSIVE OfflineLoop_require_bound(_, _)
OfflineLoop_require_bound(r, workers) ==
    IF r.res # "Ok" \/ workers = <<>> THEN r
    ELSE LET worker == Head(workers)
             c == r.chain
         IN  IF worker \notin DOMAIN c.workerBindings THEN Ret("WorkerNotBound", c, r.out)
             ELSE LET account == c.workerBindings[worker]
                  IN  IF account \notin DOMAIN c.miners
                      THEN Ret("MinerNotFound", c, r.out)
                      ELSE OfflineLoop_require_bound(
                             Ret("Ok",
                                 [c EXCEPT !.miners = Insert(@, account,
                                     [c.miners[account] EXCEPT !.state = "MiningUnresponsive"])],
                                 Append(r.out, Event("MinerEnterUnresponsive", <<account>>))),
                             Tail(workers))

RECURSIVE OfflineLoop(_, _)
OfflineLoop(r, workers) ==
    IF r.res # "Ok" \/ workers = <<>> THEN r
    ELSE LET worker == Head(workers)
             c == r.chain
         IN  IF worker \notin DOMAIN c.workerBindings THEN OfflineLoop(r, Tail(workers))
             ELSE LET account == c.workerBindings[worker]
                  IN  IF account \notin DOMAIN c.miners
                      THEN Ret("MinerNotFound", c, r.out)
                      ELSE OfflineLoop(
                             Ret("Ok",
                                 [c EXCEPT !.miners = Insert(@, account,
                                     [c.miners[account] EXCEPT !.state = "MiningUnresponsive"])],
                                 Append(r.out, Event("MinerEnterUnresponsive", <<account>>))),
                             Tail(workers))

\* the recovered loop that resumes a miner as MiningActive
RECURSIVE RecoveredLoop_active(_, _)
RecoveredLoop_active(r, workers) ==
    IF r.res # "Ok" \/ workers = <<>> THEN r
    ELSE LET worker == Head(workers)
             c == r.chain
         IN  IF worker \notin DOMAIN c.workerBindings THEN RecoveredLoop_active(r, Tail(workers))
             ELSE LET account == c.workerBindings[worker]
                  IN  IF account \notin DOMAIN c.miners
                      THEN Ret("MinerNotFound", c, r.out)
                      ELSE RecoveredLoop_active(
                             Ret("Ok",
                                 [c EXCEPT !.miners = Insert(@, account,
                                     [c.miners[account] EXCEPT !.state = "MiningActive"])],
                                 Append(r.out, Event("MinerExitUnresponive", <<account>>))),
                             Tail(workers))

RECURSIVE RecoveredLoop(_, _)
RecoveredLoop(r, workers) ==
    IF r.res # "Ok" \/ workers = <<>> THEN r
    ELSE LET worker == Head(workers)
             c == r.chain
         IN  IF worker \notin DOMAIN c.workerBindings THEN RecoveredLoop(r, Tail(workers))
             ELSE LET account == c.workerBindings[worker]
                  IN  IF account \notin DOMAIN c.miners
                      THEN Ret("MinerNotFound", c, r.out)
                      ELSE RecoveredLoop(
                             Ret("Ok",
                                 [c EXCEPT !.miners = Insert(@, account,
                                     [c.miners[account] EXCEPT !.state = "MiningIdle"])],
                                 Append(r.out, Event("MinerExitUnresponive", <<account>>))),
                             Tail(workers))

\* the settle loop without the call of stats.on_reward
RECURSIVE SettleLoop_no_reward(_, _)
SettleLoop_no_reward(r, settle) ==
    IF r.res # "Ok" \/ settle = <<>> THEN r
    ELSE LET info == Head(settle)
             c == r.chain
         IN  IF info.pubkey \notin DOMAIN c.workerBindings
             THEN SettleLoop_no_reward(r, Tail(settle))
             ELSE LET account == c.workerBindings[info.pubkey]
                  IN  IF account \notin DOMAIN c.miners
                      THEN Ret("MinerNotFound", c, r.out)
                      ELSE IF debugBuild /\ ~can_settle(c.miners[account].state)
                      THEN Ret("Panic", c, r.out)
                      ELSE SettleLoop_no_reward(
                             Ret("Ok",
                                 [c EXCEPT !.miners = Insert(@, account,
                                     [c.miners[account] EXCEPT
                                         !.v = info.v,
                                         !.v_updated_at = now])],
                                 Append(r.out,
                                        Event("MinerSettled", <<account, info.v, info.payout>>))),
                             Tail(settle))

RECURSIVE SettleLoop(_, _)
SettleLoop(r, settle) ==
    IF r.res # "Ok" \/ settle = <<>> THEN r
    ELSE LET info == Head(settle)
             c == r.chain
         IN  IF info.pubkey \notin DOMAIN c.workerBindings THEN SettleLoop(r, Tail(settle))
             ELSE LET account == c.workerBindings[info.pubkey]
                  IN  IF account \notin DOMAIN c.miners
                      THEN Ret("MinerNotFound", c, r.out)
                      ELSE IF debugBuild /\ ~can_settle(c.miners[account].state)
                      THEN Ret("Panic", c, r.out)
                      ELSE SettleLoop(
                             Ret("Ok",
                                 [c EXCEPT !.miners = Insert(@, account,
                                     [c.miners[account] EXCEPT
                                         !.v = info.v,
                                         !.v_updated_at = now,
                                         !.stats = on_reward(@, info.payout)])],
                                 Append(r.out,
                                        Event("MinerSettled", <<account, info.v, info.payout>>))),
                             Tail(settle))

is_empty(event) ==
    event.offline = <<>> /\ event.recovered_to_online = <<>> /\ event.settle = <<>>

\* the handler without the test for an empty batch
on_gk_message_received_any_batch(c, sender, event) ==
    IF sender.origin # "Gatekeeper" THEN Fail("BadSender", c)
    ELSE LET r1 == OfflineLoop(Ret("Ok", c, <<>>), event.offline)
             r2 == RecoveredLoop(r1, event.recovered_to_online)
             r3 == SettleLoop(r2, event.settle)
         IN  IF r3.res = "Panic" THEN Fail("Panic", c)
             ELSE IF r3.res # "Ok" THEN r3
             ELSE Ret("Ok", r3.chain,
                      Append(r3.out, [kind |-> "on_reward", settle |-> event.settle]))

on_gk_message_received(c, sender, event) ==
    IF sender.origin # "Gatekeeper" THEN Fail("BadSender", c)
    ELSE IF is_empty(event) THEN Ret("Ok", c, <<>>)
    ELSE LET r1 == OfflineLoop(Ret("Ok", c, <<>>), event.offline)
             r2 == RecoveredLoop(r1, event.recovered_to_online)
             r3 == SettleLoop(r2, event.settle)
         IN  IF r3.res = "Panic" THEN Fail("Panic", c)
             ELSE IF r3.res # "Ok" THEN r3
             ELSE Ret("Ok", r3.chain,
                      Append(r3.out, [kind |-> "on_reward", settle |-> event.settle]))

(***************************************************************************)
(* pow_target and the heartbeat challenge. A U32F32 value is the sequence  *)
(* of its bits, most significant first: the integer bits, as wide as the   *)
(* model's u32, then the fractional bits. A U256 is the sequence of its    *)
(* decimal digits, most significant first.                                 *)
(***************************************************************************)
DEFAULT_EXPECTED_HEARTBEAT_COUNT == 20

U32F32FracBits == 32

RECURSIVE BitLength(_)
BitLength(n) == IF n = 0 THEN 0 ELSE 1 + BitLength(n \div 2)
U32F32IntBits == BitLength(U32Mod - 1)

Zeros(w) == [i \in 1..w |-> 0]
Reverse(s) == [i \in 1..Len(s) |-> s[Len(s) + 1 - i]]

RECURSIVE ToBits(_, _)
\* the w low bits of n
ToBits(n, w) == IF w = 0 THEN <<>> ELSE Append(ToBits(n \div 2, w - 1), n % 2)

RECURSIVE BitsToNum(_, _)
BitsToNum(bits, acc) ==
    IF bits = <<>> THEN acc ELSE BitsToNum(Tail(bits), 2 * acc + Head(bits))

\* U32F32::from_num of a u32
U32F32FromNum(n) == ToBits(n, U32F32IntBits) \o Zeros(U32F32FracBits)

RECURSIVE LongDiv(_, _, _, _)
LongDiv(bits, d, rem, quot) ==
    IF bits = <<>> THEN quot
    ELSE LET r == 2 * rem + Head(bits)
         IN  LongDiv(Tail(bits), d, r % d, Append(quot, IF r >= d THEN 1 ELSE 0))

\* a / U32F32::from_num(d): the quotient of the bits, truncated
U32F32Div(a, d) == LongDiv(a, d, 0, <<>>)

RECURSIVE BitsLeq(_, _)
BitsLeq(a, b) ==
    \/ a = <<>>
    \/ Head(a) < Head(b)
    \/ Head(a) = Head(b) /\ BitsLeq(Tail(a), Tail(b))

\* cmp::min
U32F32Min(a, b) == IF BitsLeq(a, b) THEN a ELSE b

\* checked_shl drops the bits shifted out at the top
U32F32Shl(a, n) == SubSeq(a, n + 1, Len(a)) \o Zeros(n)

\* to_num::<u32>: the integer part
U32F32ToNum(a) == BitsToNum(SubSeq(a, 1, U32F32IntBits), 0)

RECURSIVE DecMulCarry(_, _, _)
\* digits, least significant first, times k plus carry
DecMulCarry(digits, k, carry) ==
    IF digits = <<>>
    THEN IF carry = 0 THEN <<>> ELSE <<carry % 10>> \o DecMulCarry(<<>>, k, carry \div 10)
    ELSE LET x == Head(digits) * k + carry
         IN  <<x % 10>> \o DecMulCarry(Tail(digits), k, x \div 10)

DecMul(a, k) == IF k = 0 THEN <<0>> ELSE Reverse(DecMulCarry(Reverse(a), k, 0))

RECURSIVE DecPow(_, _)
DecPow(k, n) == IF n = 0 THEN <<1>> ELSE DecMul(DecPow(k, n - 1), k)

RECURSIVE DecPredCarry(_)
\* digits, least significant first, minus one
DecPredCarry(digits) ==
    IF Head(digits) > 0 THEN <<Head(digits) - 1>> \o Tail(digits)
    ELSE <<9>> \o DecPredCarry(Tail(digits))

RECURSIVE DecStrip(_)
DecStrip(a) == IF Len(a) > 1 /\ Head(a) = 0 THEN DecStrip(Tail(a)) ELSE a

RECURSIVE DecDivRem(_, _, _, _)
DecDivRem(digits, d, rem, quot) ==
    IF digits = <<>> THEN quot
    ELSE LET r == 10 * rem + Head(digits)
         IN  DecDivRem(Tail(digits), d, r % d, Append(quot, r \div d))

DecLeq(a, b) ==
    \/ Len(a) < Len(b)
    \/ /\ Len(a) = Len(b)
       /\ \A i \in 1..Len(a) : (\A j \in 1..(i - 1) : a[j] = b[j]) => a[i] <= b[i]

U256Zero == <<0>>
\* four limbs of 64 one bits
U256MAX == Reverse(DecPredCarry(Reverse(DecPow(2 ^ 16, 16))))
U256Shr(a, n) == DecStrip(DecDivRem(a, 2 ^ n, 0, <<>>))
\* U256::MAX >> 24
U256MAXShr24 == U256Shr(U256MAX, 24)

pow_target(num_tx, num_workers, secs_per_block) ==
    IF num_workers = 0 THEN [res |-> "Ok", target |-> U256Zero]
    \* num_workers * 2 overflows the integer bits: a panic where the build checks
    ELSE IF num_workers * 2 >= U32Mod /\ debugBuild THEN [res |-> "Panic", target |-> U256Zero]
    \* 3600 / secs_per_block, then the division by it, panic on a zero divisor
    ELSE IF secs_per_block = 0 THEN [res |-> "Panic", target |-> U256Zero]
    ELSE IF 3600 \div secs_per_block = 0 THEN [res |-> "Panic", target |-> U256Zero]
    ELSE LET doubled == (num_workers * 2) % U32Mod
             max_tx == U32F32Div(U32F32FromNum(doubled), 3600 \div secs_per_block)
             target_tx == U32F32Min(U32F32FromNum(num_tx), max_tx)
             frac == U32F32ToNum(U32F32Shl(U32F32Div(target_tx, num_workers), 24))
             target == DecMul(U256MAXShr24, frac)
         IN  \* the U256 multiplication panics on overflow
             IF ~DecLeq(target, U256MAX) THEN [res |-> "Panic", target |-> U256Zero]
             ELSE [res |-> "Ok", target |-> target]

\* heartbeat_challenge that reads no online miner
heartbeat_challenge_no_miners(c, expected_heartbeat_count, secs_per_block, seed) ==
    LET num_tx == IF expected_heartbeat_count = None THEN DEFAULT_EXPECTED_HEARTBEAT_COUNT
                  ELSE expected_heartbeat_count[1]
        online_target == pow_target(num_tx, 0, secs_per_block)
    IN  Ret("Ok", c,
            <<Msg("workers", [name |-> "HeartbeatChallenge", seed |-> seed,
                              online_target |-> online_target.target])>>)

heartbeat_challenge(c, expected_heartbeat_count, secs_per_block, seed) ==
    LET online_miners == c.onlineMiners
        num_tx == IF expected_heartbeat_count = None THEN DEFAULT_EXPECTED_HEARTBEAT_COUNT
                  ELSE expected_heartbeat_count[1]
        online_target == pow_target(num_tx, online_miners, secs_per_block)
    IN  IF online_target.res # "Ok" THEN Fail("Panic", c)
        ELSE Ret("Ok", c,
                 <<Msg("workers", [name |-> "HeartbeatChallenge", seed |-> seed,
                                   online_target |-> online_target.target])>>)

(***************************************************************************)
(* The optional secret protocol (msg_channel.rs).  Byte strings are terms: *)
(* the SCALE encoding of a value, the public key of a key pair, the secret *)
(* two key pairs agree on, an AEAD cipher text under a secret and an iv.   *)
(***************************************************************************)
KeyPairs == {"a", "b", "c"}

\* EcdhKey::public, and ecdh::agree, which fails on bytes that are no public key
Public(key) == [pub |-> key]
agree(key, pubkey) ==
    IF pubkey.pub \in KeyPairs THEN [res |-> "Ok", secret |-> {key, pubkey.pub}]
    ELSE [res |-> "Err", secret |-> {}]

\* aead::encrypt and aead::decrypt, which fails under another secret or iv
encrypt(iv, sk, data) == [iv |-> iv, secret |-> sk, data |-> data]
decrypt(iv, sk, cipher) ==
    IF cipher.iv = iv /\ cipher.secret = sk THEN [res |-> "Ok", data |-> cipher.data]
    ELSE [res |-> "Err", data |-> cipher.data]

\* Encode::encode and Decode::decode
Encode(value) == [scale |-> value]
Decode(bytes) ==
    IF "scale" \in DOMAIN bytes THEN [res |-> "Ok", value |-> bytes.scale]
    ELSE [res |-> "Err", value |-> bytes]

\* OspPayload
Plain(message) == [tag |-> "Plain", message |-> message]
Encrypted(cipher) == [tag |-> "Encrypted", cipher |-> cipher]
AeadCipher(iv, cipher, pubkey) == [iv |-> iv, cipher |-> cipher, pubkey |-> pubkey]

\* The channel: the messages in flight and the next sequence number.
Channel == [mq |-> mq, sequence |-> sequence]
\* Sr25519MessageChannel::send_data of the enclave that holds `key`
send_data(c, key, data, to) ==
    [res |-> "Ok",
     mq |-> Append(c.mq, [sequence |-> c.sequence, sender |-> key, destination |-> to,
                          payload |-> data]),
     sequence |-> c.sequence + 1]

\* osp_sendto that names the receiver in the cipher
osp_sendto_remote_pubkey(c, key, message, to, remote_pubkey, iv) ==
    IF remote_pubkey = None
    THEN send_data(c, key, Encode(Plain(message)), to)
    ELSE LET pubkey == remote_pubkey[1]
             sk == agree(key, pubkey)
         IN  IF sk.res # "Ok" THEN [res |-> "Panic", mq |-> c.mq, sequence |-> c.sequence]
             ELSE LET data == encrypt(iv, sk.secret, Encode(message))
                      payload == Encrypted(AeadCipher(iv, data, pubkey))
                  IN  send_data(c, key, Encode(payload), to)

\* OspMq::osp_sendto of the enclave that holds `key`; iv is generate_random_iv()
osp_sendto(c, key, message, to, remote_pubkey, iv) ==
    IF remote_pubkey = None
    THEN send_data(c, key, Encode(Plain(message)), to)
    ELSE LET pubkey == remote_pubkey[1]
             sk == agree(key, pubkey)
         IN  \* .expect("should never fail with valid ecdh key")
             IF sk.res # "Ok" THEN [res |-> "Panic", mq |-> c.mq, sequence |-> c.sequence]
             ELSE LET data == encrypt(iv, sk.secret, Encode(message))
                      payload == Encrypted(AeadCipher(iv, data, Public(key)))
                  IN  send_data(c, key, Encode(payload), to)

\* OspPeeler::peel with the peeler's ecdh_key
peel(ecdh_key, msg) ==
    IF msg.tag = "Plain" THEN [res |-> "Ok", msg |-> msg.message]
    ELSE LET cipher == msg.cipher
             sk == agree(ecdh_key, cipher.pubkey)
         IN  IF sk.res # "Ok" THEN [res |-> "Panic", msg |-> ""]
             ELSE LET plain == decrypt(cipher.iv, sk.secret, cipher.cipher)
                  IN  \* .expect("should never fail with valid aead key")
                      IF plain.res # "Ok" THEN [res |-> "Panic", msg |-> ""]
                      ELSE LET decoded == Decode(plain.data)
                           IN  IF decoded.res # "Ok" THEN [res |-> "Error", msg |-> ""]
                               ELSE [res |-> "Ok", msg |-> decoded.value]

\* TypedReceiver::try_next: the next message in flight, decoded
TypedReceiver_try_next(queue) ==
    IF queue = <<>> THEN [res |-> "Ok", value |-> None, queue |-> queue]
    ELSE LET decoded == Decode(Head(queue).payload)
         IN  IF decoded.res # "Ok"
             THEN [res |-> "Error", value |-> None, queue |-> Tail(queue)]
             ELSE [res |-> "Ok",
                   value |-> Some(<<Head(queue).sequence, decoded.value, Head(queue).sender>>),
                   queue |-> Tail(queue)]

\* PeelingReceiver::try_next of a receiver made by new_osp(receiver, ecdh_key)
PeelingReceiver_try_next(queue, ecdh_key) ==
    LET omsg == TypedReceiver_try_next(queue)
    IN  IF omsg.res # "Ok" THEN [res |-> "Error", value |-> None, queue |-> omsg.queue]
        ELSE IF omsg.value = None THEN [res |-> "Ok", value |-> None, queue |-> omsg.queue]
        ELSE LET seq == omsg.value[1][1]
                 origin == omsg.value[1][3]
                 msg == peel(ecdh_key, omsg.value[1][2])
             IN  IF msg.res # "Ok" THEN [res |-> msg.res, value |-> None, queue |-> omsg.queue]
                 ELSE [res |-> "Ok", value |-> Some(<<seq, msg.msg, origin>>),
                       queue |-> omsg.queue]

(***************************************************************************)
(* The inputs of the calls.                                                *)
(***************************************************************************)
\* Just below and at the minimal stake of the best worker, and a stake whose
\* ve exceeds v_max on that worker.
StakeInputs == {minimal_stake(1000) - 1, minimal_stake(1000), 21500 * DOLLARS}

\* An accepted stake that is not a whole number of fixed-point steps: the
\* conversion to fixed point and back does not return it.
OddStakes == {minimal_stake(1000) + 1}

\* Workers named by a message: one that can be bound and one that never is.
MessageWorkers == {"w1", "w4"}
Senders == [origin : {"Worker"}, pubkey : MessageWorkers] \cup {[origin |-> "Gatekeeper"]}

\* The lists of a batch: empty or one entry.
ShortSeqs(S) == {<<>>} \cup {<<x>> : x \in S}

BatchWorkers == MessageWorkers
SettleInfos == [pubkey : BatchWorkers, v : {FromNum(1000)}, payout : {FromNum(1)}]
Batches ==
    [offline : ShortSeqs(BatchWorkers),
     recovered_to_online : ShortSeqs(BatchWorkers),
     settle : ShortSeqs(SettleInfos)]
\* Every batch from the gatekeeper, and one batch from a sender that is not.
GkInputs ==
    {<<[origin |-> "Gatekeeper"], event>> : event \in Batches}
      \cup {<<[origin |-> "Worker", pubkey |-> "w1"],
              [offline |-> <<"w1">>, recovered_to_online |-> <<>>, settle |-> <<>>]>>}

\* The arguments of Benchmark::update: small values, the values of
\* test_benchmark_report, the registry's score, the least iteration count
\* whose 6-second rate leaves u32 and the least initial score whose twelvefold
\* leaves u32.
ReportTimes == (0..MaxReportTime) \cup {100, 200}
ReportIterations == (0..MaxReportIterations) \cup {11000, 26000, (U32Mod \div 6) + 1}
ReportScores == {600, 1000, (U32Mod \div 12) + 1}

\* The block time of the runtime, the stored expected heartbeat count (never
\* written by the pallet, so None unless genesis or a migration puts one), and
\* the seeds of the randomness source.
ExpectedBlockTimeSec == 12
HeartbeatCounts == {None, Some(1), Some(40)}
Seeds == {"seed1", "seed2"}
\* Block times a runtime can configure, and miner counts put in OnlineMiners.
BlockTimes == {0, 1, 7, ExpectedBlockTimeSec, 1800, 3600, 3601}
ChallengeMiners == (0..MaxOnlineMiners) \cup {200000, U32Mod \div 2, U32Mod - 1}

\* The enclaves that send, the enclave that receives, the messages, the
\* topic, the ivs drawn, and what the key map gives for the topic: no key,
\* the receiver's key, another enclave's key, bytes that are no key.
SenderKeys == {"a", "c"}
ReceiverKey == "b"
OspMessages == {"msg1", "msg2"}
OspTopic == "topic"
IVs == {"iv1", "iv2"}
RemotePubkeys == {None, Some(Public(ReceiverKey)), Some(Public("c")), Some(Public("junk"))}

(***************************************************************************)
(* The state machine.                                                      *)
(***************************************************************************)
\* No message in flight, none sent, none received.
ChannelIdle ==
    /\ mq = <<>>
    /\ sequence = 0
    /\ received = [res |-> "Ok", value |-> None]

Init ==
    /\ miners = EmptyMap
    /\ minerBindings = EmptyMap
    /\ workerBindings = EmptyMap
    /\ stakes = EmptyMap
    /\ onlineMiners = 0
    /\ nextSessionId = 0
    /\ coolDownPeriod = GenesisCoolDown
    /\ now = GenesisTime
    /\ debugBuild \in BOOLEAN
    /\ ChannelIdle

\* The wrapping counter is followed MaxUnderflow steps below zero.
OnlineBounded(c) ==
    c.onlineMiners <= Cardinality(AccountIds) \/ c.onlineMiners >= U32Mod - MaxUnderflow

\* The storage and the emissions after a call that returned r.
Apply(r) ==
    /\ OnlineBounded(r.chain)
    /\ miners' = r.chain.miners
    /\ minerBindings' = r.chain.minerBindings
    /\ workerBindings' = r.chain.workerBindings
    /\ stakes' = r.chain.stakes
    /\ onlineMiners' = r.chain.onlineMiners
    /\ nextSessionId' = r.chain.nextSessionId
    /\ UNCHANGED <<coolDownPeriod, now, debugBuild>>
    /\ UNCHANGED channelVars

Bind(accounts) ==
    \E m \in accounts, w \in WorkerKeys :
        LET r == bind(Chain, m, w)
        IN  /\ Apply(r)

UnbindMiner(accounts) ==
    \E m \in accounts, notify \in BOOLEAN :
        LET r == unbind_miner(Chain, m, notify)
        IN  /\ Apply(r)

StartMining(accounts, stakeInputs) ==
    \E m \in accounts, stake \in stakeInputs :
        LET r == start_mining(Chain, m, stake)
        IN  /\ nextSessionId < MaxSessions
            /\ Apply(r)

StopMining(accounts) ==
    \E m \in accounts :
        LET r == stop_mining(Chain, m)
        IN  /\ Apply(r)

Reclaim(accounts) ==
    \E m \in accounts :
        LET r == reclaim(Chain, m)
        IN  /\ Apply(r)

Heartbeat ==
    \E sender \in Senders, iterations \in 1..MaxIterations :
        LET r == on_mining_message_received(Chain, sender, iterations)
        IN  /\ Apply(r)

\* The accumulated reward of every record stays within MaxReward tokens.
RewardsBounded(c) ==
    \A m \in DOMAIN c.miners : c.miners[m].stats.total_reward <= MaxReward * DOLLARS

GkMessage ==
    \E input \in GkInputs :
        LET sender == input[1]
            event == input[2]
            r == on_gk_message_received(Chain, sender, event)
        IN  /\ RewardsBounded(r.chain)
            /\ Apply(r)

\* set_cool_down_expiration, called by root
SetCoolDownExpiration ==
    \E period \in {0, GenesisCoolDown} :
        /\ coolDownPeriod' = period
        /\ UNCHANGED <<miners, minerBindings, workerBindings, stakes, onlineMiners,
                       nextSessionId, now, debugBuild, mq, sequence, received>>

\* The clock advances by one second.
Elapse ==
    /\ now < GenesisTime + MaxElapsed
    /\ now' = now + 1
    /\ UNCHANGED <<miners, minerBindings, workerBindings, stakes, onlineMiners,
                   nextSessionId, coolDownPeriod, debugBuild, mq, sequence, received>>

\* Benchmark::update applied to the benchmark of m1's record.
BenchmarkReport ==
    \E updated_at \in ReportTimes, iterations \in ReportIterations,
       initial_score \in ReportScores :
        LET self == miners["m1"].benchmark
            upd == BenchmarkUpdate(self, updated_at, iterations, initial_score)
        IN  /\ ~BenchmarkUpdatePanics(self, updated_at, iterations, initial_score)
            /\ miners' = [miners EXCEPT !["m1"].benchmark = upd.benchmark]
            /\ UNCHANGED <<minerBindings, workerBindings, stakes, onlineMiners,
                           nextSessionId, coolDownPeriod, now, debugBuild, mq, sequence, received>>

\* on_finalize: the heartbeat challenge of the block
HeartbeatChallenge(blockTimes) ==
    \E count \in HeartbeatCounts, secs \in blockTimes, seed \in Seeds :
        LET r == heartbeat_challenge(Chain, count, secs, seed)
        IN  /\ Apply(r)

(***************************************************************************)
(* Spec: two miner accounts and every call, at one instant of the clock;   *)
(* the root call that sets the cool down period to zero lets reclaim pass. *)
(***************************************************************************)
Next ==
    \/ Bind(AccountIds)
    \/ UnbindMiner(AccountIds)
    \/ StartMining(AccountIds, StakeInputs)
    \/ StopMining(AccountIds)
    \/ Reclaim(AccountIds)
    \/ Heartbeat
    \/ GkMessage
    \/ SetCoolDownExpiration

Spec == Init /\ [][Next]_vars

(***************************************************************************)
(* SpecClock: one miner account, every call, the clock advancing, and      *)
(* stakes that the fixed-point conversion does not return exactly.         *)
(***************************************************************************)
NextClock ==
    \/ Bind({"m1"})
    \/ UnbindMiner({"m1"})
    \/ StartMining({"m1"}, StakeInputs \cup OddStakes)
    \/ StopMining({"m1"})
    \/ Reclaim({"m1"})
    \/ Heartbeat
    \/ GkMessage
    \/ SetCoolDownExpiration
    \/ Elapse
    \/ HeartbeatChallenge({ExpectedBlockTimeSec})

SpecClock == Init /\ [][NextClock]_vars

(***************************************************************************)
(* SpecBenchmark: Benchmark::update on its own, from the record of a miner *)
(* that has just been bound, with report times, iteration counters and     *)
(* initial scores drawn from the input sets.                               *)
(***************************************************************************)
InitBenchmark ==
    /\ now = GenesisTime
    /\ debugBuild \in BOOLEAN
    /\ ChannelIdle
    /\ miners = ("m1" :> FreshMinerInfo)
    /\ minerBindings = ("m1" :> "w1")
    /\ workerBindings = ("w1" :> "m1")
    /\ stakes = EmptyMap
    /\ onlineMiners = 0
    /\ nextSessionId = 0
    /\ coolDownPeriod = GenesisCoolDown

NextBenchmark == BenchmarkReport

SpecBenchmark == InitBenchmark /\ [][NextBenchmark]_vars

(***************************************************************************)
(* SpecChallenge: the heartbeat challenge computed for a miner count put   *)
(* in OnlineMiners, under every block time.                                *)
(***************************************************************************)
InitChallenge ==
    /\ miners = EmptyMap
    /\ minerBindings = EmptyMap
    /\ workerBindings = EmptyMap
    /\ stakes = EmptyMap
    /\ onlineMiners \in ChallengeMiners
    /\ nextSessionId = 0
    /\ coolDownPeriod = GenesisCoolDown
    /\ now = GenesisTime
    /\ debugBuild \in BOOLEAN
    /\ ChannelIdle

NextChallenge == HeartbeatChallenge(BlockTimes)

SpecChallenge == InitChallenge /\ [][NextChallenge]_vars

(***************************************************************************)
(* SpecOsp: enclaves a and c send on one topic, plainly or encrypted, and  *)
(* enclave b receives with a PeelingReceiver made by new_osp.              *)
(***************************************************************************)
OspSend ==
    \E key \in SenderKeys, message \in OspMessages, remote_pubkey \in RemotePubkeys,
       iv \in IVs :
        LET r == osp_sendto(Channel, key, message, OspTopic, remote_pubkey, iv)
        IN  /\ Len(mq) < MaxQueue
            /\ sequence < MaxSent
            /\ mq' = r.mq
            /\ sequence' = r.sequence
            /\ UNCHANGED received
            /\ UNCHANGED palletVars

OspReceive ==
    LET r == PeelingReceiver_try_next(mq, ReceiverKey)
    IN  /\ mq' = r.queue
        /\ received' = [res |-> r.res, value |-> r.value]
        /\ UNCHANGED sequence
        /\ UNCHANGED palletVars

NextOsp ==
    \/ OspSend
    \/ OspReceive

SpecOsp == Init /\ [][NextOsp]_vars

(***************************************************************************)
(* Properties.  A property of a call is stated of the call's operator,     *)
(* applied to the storage of every reachable state and to every input.     *)
(***************************************************************************)
OnlineStates == {"MiningIdle", "MiningActive", "MiningUnresponsive"}
PreconditionErrors ==
    {"WorkerNotRegistered", "BenchmarkMissing", "DuplicateBoundMiner", "MinerNotFound",
     "MinerNotBound", "MinerNotReady", "MinerNotMining", "CoolDownNotReady",
     "InsufficientStake", "TooMuchStake"}
Messages(o) == SelectSeq(o, LAMBDA x : x.kind = "message")

\* C1: the miner -> worker table and the worker -> miner table are mutual
\* inverses in every reachable state: MinerBindings[m] = w if and only if
\* WorkerBindings[w] = m.
C1_BindingsInverse ==
    \A m \in AccountIds, w \in WorkerKeys :
        (m \in DOMAIN minerBindings /\ minerBindings[m] = w)
            <=> (w \in DOMAIN workerBindings /\ workerBindings[w] = m)

\* Both miners are bound, crosswise, and one of them has mined before.
C1_Witness ==
    /\ DOMAIN minerBindings = AccountIds
    /\ minerBindings["m1"] = "w2"
    /\ minerBindings["m2"] = "w1"
    /\ "m1" \in DOMAIN stakes

\* C2: OnlineMiners equals the number of miner records whose state is
\* MiningIdle, MiningActive or MiningUnresponsive, in every reachable state.
C2_OnlineMinersIsCount ==
    onlineMiners = Cardinality({m \in DOMAIN miners : miners[m].state \in OnlineStates})

\* C3: for every miner that has a record, a Stakes entry exists if and only
\* if the record's state is not Ready.
C3_StakeIffNotReady ==
    \A m \in DOMAIN miners : (m \in DOMAIN stakes) <=> (miners[m].state # "Ready")

\* C4: a bind, unbind, start_mining, stop_mining or reclaim that returns a
\* precondition error leaves the whole storage as it was and emits nothing.
Unchanged(r) == r.res \in PreconditionErrors => (r.chain = Chain /\ r.out = <<>>)
C4_ErrorLeavesStateUnchanged ==
    \A m \in AccountIds :
        /\ \A w \in WorkerKeys : Unchanged(bind(Chain, m, w))
        /\ \A notify \in BOOLEAN : Unchanged(unbind_miner(Chain, m, notify))
        /\ \A stake \in StakeInputs : Unchanged(start_mining(Chain, m, stake))
        /\ Unchanged(stop_mining(Chain, m))
        /\ Unchanged(reclaim(Chain, m))

\* A state in which calls fail with seven of the errors: a bound worker is
\* asked for again, an unbound miner is unbound, started, and a Ready miner is
\* stopped, reclaimed and started with too little and too much stake.
C4_Witness ==
    \E m \in DOMAIN minerBindings, n \in AccountIds :
        /\ bind(Chain, n, minerBindings[m]).res = "DuplicateBoundMiner"
        /\ unbind_miner(Chain, n, TRUE).res = "MinerNotBound"
        /\ \E stake \in StakeInputs : start_mining(Chain, n, stake).res = "MinerNotFound"
        /\ stop_mining(Chain, m).res = "MinerNotMining"
        /\ reclaim(Chain, m).res = "CoolDownNotReady"
        /\ \E stake \in StakeInputs : start_mining(Chain, m, stake).res = "InsufficientStake"
        /\ \E stake \in StakeInputs : start_mining(Chain, m, stake).res = "TooMuchStake"
        /\ n \in DOMAIN stakes

\* C5: after an accepted bind(m, w) the miner lookup of m is w, the worker
\* lookup of w is m, and the record of m is a fresh Ready record, whatever
\* record m had before.
C5_BindCreatesFreshRecord ==
    \A m \in AccountIds, w \in WorkerKeys :
        LET r == bind(Chain, m, w)
        IN  r.res = "Ok" =>
              /\ ensure_miner_bound(r.chain, m) /\ r.chain.minerBindings[m] = w
              /\ ensure_worker_bound(r.chain, w) /\ r.chain.workerBindings[w] = m
              /\ m \in DOMAIN r.chain.miners
              /\ r.chain.miners[m].state = "Ready"
              /\ r.chain.miners[m].v = 0
              /\ r.chain.miners[m].ve = 0
              /\ r.chain.miners[m].benchmark.p_instant = 0
              /\ r.chain.miners[m].benchmark.iterations = 0
              /\ r.chain.miners[m].cool_down_start = 0
              /\ r.chain.miners[m].stats.total_reward = 0

\* A bind is accepted for a miner whose earlier record has mined, reported a
\* heartbeat, been rewarded and is cooling down.
C5_Witness ==
    \E m \in AccountIds, w \in WorkerKeys :
        /\ bind(Chain, m, w).res = "Ok"
        /\ m \in DOMAIN miners
        /\ miners[m].state = "MiningCoolingDown"
        /\ miners[m].ve > 0
        /\ miners[m].benchmark.iterations > 0
        /\ miners[m].stats.total_reward > 0

\* C6: bind(m, w) fails with WorkerNotRegistered when w is not in the worker
\* registry, with BenchmarkMissing when w is registered but has no initial
\* score, and with DuplicateBoundMiner when m is already bound to any worker
\* or w is already bound to any miner; it succeeds exactly when none of these
\* holds.  The failures are the claim's list read in its order: a later one
\* is returned when no earlier one applies.
C6_BindErrors ==
    \A m \in AccountIds, w \in WorkerKeys :
        LET res == bind(Chain, m, w).res
            unregistered == w \notin DOMAIN Workers
            unscored == w \in DOMAIN Workers /\ Workers[w].initial_score = None
            duplicate == m \in DOMAIN minerBindings \/ w \in DOMAIN workerBindings
        IN  /\ unregistered => res = "WorkerNotRegistered"
            /\ unscored => res = "BenchmarkMissing"
            /\ (duplicate /\ ~unregistered /\ ~unscored) => res = "DuplicateBoundMiner"
            /\ (w \in DOMAIN workerBindings) => res = "DuplicateBoundMiner"
            /\ res = "Ok" <=> (~unregistered /\ ~unscored /\ ~duplicate)

\* One miner is bound and the other is not: binds fail with each of the three
\* errors, on either side of the duplicate, and one bind succeeds.
C6_Witness ==
    \E m \in DOMAIN minerBindings, n \in AccountIds \ DOMAIN minerBindings :
        /\ bind(Chain, n, "w4").res = "WorkerNotRegistered"
        /\ bind(Chain, n, "w3").res = "BenchmarkMissing"
        /\ bind(Chain, n, minerBindings[m]).res = "DuplicateBoundMiner"
        /\ \E w \in WorkerKeys \ DOMAIN workerBindings :
              bind(Chain, m, w).res = "DuplicateBoundMiner"
        /\ \E w \in WorkerKeys : bind(Chain, n, w).res = "Ok"

\* C7: every successful stop_mining(m), the one inside a forced unbind
\* included, decrements OnlineMiners by exactly 1 from a value of at least 1,
\* sets the state of m to MiningCoolingDown and cool_down_start to the clock
\* value, and emits one MiningStop message to the bound worker.
StopEffects(r, m) ==
    /\ onlineMiners >= 1
    /\ r.chain.onlineMiners = onlineMiners - 1
    /\ r.chain.miners[m].state = "MiningCoolingDown"
    /\ r.chain.miners[m].cool_down_start = now
    /\ Messages(r.out) = <<Msg(minerBindings[m], [name |-> "MiningStop"])>>
C7_StopMiningEffects ==
    \A m \in AccountIds :
        /\ stop_mining(Chain, m).res = "Ok" => StopEffects(stop_mining(Chain, m), m)
        /\ \A notify \in BOOLEAN :
              LET r == unbind_miner(Chain, m, notify)
              IN  (r.res = "Ok" /\ ~can_unbind(miners[m].state)) => StopEffects(r, m)

\* C8: stop_mining(m) succeeds only when m is bound and its state is
\* MiningIdle, MiningActive or MiningUnresponsive; it fails with MinerNotBound
\* when m has no binding and, for a bound m, with MinerNotMining when the
\* state is Ready or MiningCoolingDown.
C8_StopMiningErrors ==
    \A m \in AccountIds :
        LET res == stop_mining(Chain, m).res
        IN  /\ res = "Ok" => (m \in DOMAIN minerBindings /\ miners[m].state \in OnlineStates)
            /\ (m \in DOMAIN minerBindings
                  /\ miners[m].state \in {"Ready", "MiningCoolingDown"})
                 => res = "MinerNotMining"
            /\ m \notin DOMAIN minerBindings => res = "MinerNotBound"

\* A cooling-down bound miner, an unbound miner that kept a record, and a
\* third call that succeeds in the same run of states: here the first two.
C8_Witness ==
    \E m \in DOMAIN minerBindings, n \in DOMAIN miners \ DOMAIN minerBindings :
        /\ miners[m].state = "MiningCoolingDown"
        /\ stop_mining(Chain, m).res = "MinerNotMining"
        /\ miners[n].state = "MiningCoolingDown"
        /\ stop_mining(Chain, n).res = "MinerNotBound"

\* C9: start_mining(m, stake) on a bound miner fails with MinerNotReady
\* unless the state is Ready, then with InsufficientStake when
\* stake < minimal_stake(p), then with TooMuchStake when the computed
\* ve > v_max, p being the bound worker's initial score; it succeeds exactly
\* when the state is Ready, stake >= minimal_stake(p) and ve <= v_max.
C9_StartMiningErrors ==
    \A m \in DOMAIN minerBindings, stake \in StakeInputs :
        LET res == start_mining(Chain, m, stake).res
            worker == Workers[minerBindings[m]]
            p == worker.initial_score[1]
            ready == miners[m].state = "Ready"
            enough == stake >= minimal_stake(p)
            fits == ve(stake, p, worker.confidence_level) <= v_max
        IN  /\ ~ready => res = "MinerNotReady"
            /\ (ready /\ ~enough) => res = "InsufficientStake"
            /\ (ready /\ enough /\ ~fits) => res = "TooMuchStake"
            /\ res = "Ok" <=> (ready /\ enough /\ fits)

\* A Ready bound miner for which the three stakes give the two errors and a
\* success, the accepted stake being exactly the minimal stake.
C9_Witness ==
    \E m \in DOMAIN minerBindings :
        /\ start_mining(Chain, m, minimal_stake(1000) - 1).res = "InsufficientStake"
        /\ start_mining(Chain, m, minimal_stake(1000)).res = "Ok"
        /\ \E stake \in StakeInputs : start_mining(Chain, m, stake).res = "TooMuchStake"
        /\ \E n \in DOMAIN minerBindings :
              \E stake \in StakeInputs : start_mining(Chain, n, stake).res = "MinerNotReady"

\* C10: a successful start_mining(m, stake) moves m from Ready to MiningIdle,
\* sets v and ve to the same computed value, records stake in Stakes[m],
\* increments OnlineMiners by exactly 1 and emits one MiningStart message to
\* the bound worker with session_id = the NextSessionId before the call and
\* init_v = the stored ve.
C10_StartMiningEffects ==
    \A m \in AccountIds, stake \in StakeInputs :
        LET r == start_mining(Chain, m, stake)
            info == r.chain.miners[m]
            worker == Workers[minerBindings[m]]
        IN  r.res = "Ok" =>
              /\ miners[m].state = "Ready"
              /\ info.state = "MiningIdle"
              /\ info.ve = ve(stake, worker.initial_score[1], worker.confidence_level)
              /\ info.v = info.ve
              /\ m \in DOMAIN r.chain.stakes /\ r.chain.stakes[m] = stake
              /\ r.chain.onlineMiners = onlineMiners + 1
              /\ Messages(r.out) =
                    <<Msg(minerBindings[m],
                          [name |-> "MiningStart", session_id |-> nextSessionId,
                           init_v |-> info.ve])>>

\* C11: NextSessionId never decreases: a successful start_mining increases it
\* by exactly 1 and carries the value before the call in its MiningStart
\* message, and a failed start_mining and every other call leave it as it
\* was; so a later MiningStart, after any call in between, carries a strictly
\* greater session id than an earlier one.
SessionKept(r) == r.chain.nextSessionId = nextSessionId
StartSessions(o) ==
    SelectSeq(o, LAMBDA x : x.kind = "message" /\ x.event.name = "MiningStart")
C11_SessionIdMonotonic ==
    /\ \A m \in AccountIds :
          /\ \A stake \in StakeInputs :
                LET r == start_mining(Chain, m, stake)
                IN  /\ r.res = "Ok" =>
                          /\ r.chain.nextSessionId = nextSessionId + 1
                          /\ Len(StartSessions(r.out)) = 1
                          /\ StartSessions(r.out)[1].event.session_id = nextSessionId
                          /\ \A n \in AccountIds, stake2 \in StakeInputs :
                                LET r2 == start_mining(r.chain, n, stake2)
                                IN  r2.res = "Ok" =>
                                      StartSessions(r2.out)[1].event.session_id
                                          > StartSessions(r.out)[1].event.session_id
                    /\ r.res # "Ok" => (SessionKept(r) /\ StartSessions(r.out) = <<>>)
          /\ \A w \in WorkerKeys : SessionKept(bind(Chain, m, w))
          /\ \A notify \in BOOLEAN : SessionKept(unbind_miner(Chain, m, notify))
          /\ SessionKept(stop_mining(Chain, m))
          /\ SessionKept(reclaim(Chain, m))
    /\ \A sender \in Senders, iterations \in 1..MaxIterations :
          SessionKept(on_mining_message_received(Chain, sender, iterations))
    /\ \A input \in GkInputs : SessionKept(on_gk_message_received(Chain, input[1], input[2]))

\* One session has been issued, and in this state one start_mining succeeds
\* with the next id while another fails.
C11_Witness ==
    /\ nextSessionId = 1
    /\ \E m \in AccountIds, stake \in StakeInputs : start_mining(Chain, m, stake).res = "Ok"
    /\ \E m \in AccountIds, stake \in StakeInputs :
          start_mining(Chain, m, stake).res = "MinerNotReady"

\* C12: reclaim(m) fails with CoolDownNotReady unless the record of m is in
\* MiningCoolingDown and now - cool_down_start >= the cool down period: it
\* never succeeds for a record in Ready, MiningIdle, MiningActive or
\* MiningUnresponsive, nor in the instant of the stop_mining that started a
\* cool down of a positive period.
CooledDown(c, m) ==
    /\ c.miners[m].state = "MiningCoolingDown"
    /\ now - c.miners[m].cool_down_start >= coolDownPeriod
C12_ReclaimNeedsCoolDown ==
    \A m \in DOMAIN miners :
        LET res == reclaim(Chain, m).res
            stopped == stop_mining(Chain, m)
        IN  /\ ~CooledDown(Chain, m) => res = "CoolDownNotReady"
            /\ res = "Ok" => CooledDown(Chain, m)
            /\ miners[m].state \in {"Ready"} \cup OnlineStates => res = "CoolDownNotReady"
            /\ (stopped.res = "Ok" /\ coolDownPeriod > 0) =>
                  /\ stopped.chain.miners[m].cool_down_start = now
                  /\ reclaim(stopped.chain, m).res = "CoolDownNotReady"

\* A miner that was stopped after the clock advanced is cooling down with its
\* stake held, and its reclaim is refused because the period has not passed.
C12_Witness ==
    \E m \in DOMAIN miners :
        /\ miners[m].state = "MiningCoolingDown"
        /\ miners[m].cool_down_start > GenesisTime
        /\ m \in DOMAIN stakes
        /\ coolDownPeriod > 0
        /\ now - miners[m].cool_down_start < coolDownPeriod
        /\ reclaim(Chain, m).res = "CoolDownNotReady"

\* C13: a successful reclaim(m) sets the state to Ready and cool_down_start
\* to 0, removes Stakes[m], and reports (orig_stake, slashed) to the reclaim
\* observer with returned = min(v / ve, 1) * orig_stake and
\* slashed = orig_stake - returned; so 0 <= slashed <= orig_stake, and
\* slashed = 0 whenever v >= ve.
Reclaims(o) == SelectSeq(o, LAMBDA x : x.kind = "on_reclaim")
ReclaimResets(r, m) ==
    /\ r.chain.miners[m].state = "Ready"
    /\ r.chain.miners[m].cool_down_start = 0
    /\ m \notin DOMAIN r.chain.stakes
    /\ Len(Reclaims(r.out)) = 1
    /\ Reclaims(r.out)[1].miner = m
    /\ Reclaims(r.out)[1].orig_stake = (IF m \in DOMAIN stakes THEN stakes[m] ELSE 0)
ReclaimSlashBounded(r) ==
    /\ 0 <= Reclaims(r.out)[1].slashed
    /\ Reclaims(r.out)[1].slashed <= Reclaims(r.out)[1].orig_stake
C13_ReclaimEffects ==
    \A m \in DOMAIN miners :
        LET r == reclaim(Chain, m)
        IN  r.res = "Ok" =>
              /\ ReclaimResets(r, m)
              /\ ReclaimSlashBounded(r)
              /\ miners[m].v >= miners[m].ve => Reclaims(r.out)[1].slashed = 0

\* C14: unbind of a bound miner in MiningIdle, MiningActive or
\* MiningUnresponsive first performs stop_mining (the state becomes
\* MiningCoolingDown, OnlineMiners is decremented, MiningStop is sent) and
\* only then removes both binding entries, and the notification carries
\* forced = true; unbind of a bound miner in Ready or MiningCoolingDown
\* removes both binding entries without changing the record and carries
\* forced = false; unbind of an unbound miner fails with MinerNotBound.
Unbounds(o) == SelectSeq(o, LAMBDA x : x.kind = "on_unbound")
BindingsRemoved(r, m) ==
    /\ m \notin DOMAIN r.chain.minerBindings
    /\ minerBindings[m] \notin DOMAIN r.chain.workerBindings
    /\ \A n \in DOMAIN minerBindings \ {m} :
          /\ n \in DOMAIN r.chain.minerBindings
          /\ r.chain.minerBindings[n] = minerBindings[n]
Notified(r, m, notify, force) ==
    Unbounds(r.out) =
        IF notify
        THEN <<[kind |-> "on_unbound", worker |-> minerBindings[m], force |-> force]>>
        ELSE <<>>
ForcedStop(r, m) ==
    /\ r.chain.miners[m] = [miners[m] EXCEPT !.state = "MiningCoolingDown",
                                              !.cool_down_start = now]
    /\ Len(r.out) >= 3
    /\ r.out[1] = Msg(minerBindings[m], [name |-> "MiningStop"])
    /\ r.out[2] = Event("MinerStopped", <<m>>)
    /\ r.out[3] = Event("MinerUnbound", <<m, minerBindings[m]>>)
    /\ Messages(r.out) = <<r.out[1]>>
UnbindEffects(r, m, notify) ==
    /\ m \notin DOMAIN minerBindings => r.res = "MinerNotBound"
    /\ (m \in DOMAIN minerBindings /\ miners[m].state \in OnlineStates) =>
          /\ r.res = "Ok"
          /\ ForcedStop(r, m)
          /\ r.chain.onlineMiners = onlineMiners - 1
          /\ BindingsRemoved(r, m)
          /\ Notified(r, m, notify, TRUE)
    /\ (m \in DOMAIN minerBindings /\ miners[m].state \in {"Ready", "MiningCoolingDown"}) =>
          /\ r.res = "Ok"
          /\ r.chain.miners = miners
          /\ r.chain.onlineMiners = onlineMiners
          /\ Messages(r.out) = <<>>
          /\ BindingsRemoved(r, m)
          /\ Notified(r, m, notify, FALSE)
C14_UnbindEffects ==
    \A m \in AccountIds, notify \in BOOLEAN :
        UnbindEffects(unbind_miner(Chain, m, notify), m, notify)

\* C15: in every reachable state every bound miner has a miner record, and
\* no call removes a record: after any call every miner that had a record
\* still has one, and an unbind leaves the record of the unbound miner in
\* place.
RecordsKept(r) == DOMAIN miners \subseteq DOMAIN r.chain.miners
C15_RecordsRetained ==
    /\ DOMAIN minerBindings \subseteq DOMAIN miners
    /\ \A m \in AccountIds :
          /\ \A w \in WorkerKeys : RecordsKept(bind(Chain, m, w))
          /\ \A notify \in BOOLEAN :
                LET r == unbind_miner(Chain, m, notify)
                IN  /\ RecordsKept(r)
                    /\ r.res = "Ok" =>
                          (m \in DOMAIN r.chain.miners /\ m \notin DOMAIN r.chain.minerBindings)
          /\ \A stake \in StakeInputs : RecordsKept(start_mining(Chain, m, stake))
          /\ RecordsKept(stop_mining(Chain, m))
          /\ RecordsKept(reclaim(Chain, m))
    /\ \A sender \in Senders, iterations \in 1..MaxIterations :
          RecordsKept(on_mining_message_received(Chain, sender, iterations))
    /\ \A input \in GkInputs : RecordsKept(on_gk_message_received(Chain, input[1], input[2]))

\* One miner is bound, the other was unbound while mining and kept its
\* record and its stake.
C15_Witness ==
    \E m \in DOMAIN minerBindings, n \in DOMAIN miners \ DOMAIN minerBindings :
        /\ n \in DOMAIN stakes
        /\ miners[n].state = "MiningCoolingDown"
        /\ unbind_miner(Chain, m, TRUE).res = "Ok"

\* C16: a heartbeat from a bound worker whose arrival time is not greater
\* than the record's benchmark.updated_at, or whose iterations is not greater
\* than the record's benchmark.iterations, is dropped: the handler returns
\* without a panic and leaves the storage, the miner record included, as it
\* was.
StaleReport(benchmark, updated_at, iterations) ==
    updated_at <= benchmark.updated_at \/ iterations <= benchmark.iterations
C16_StaleHeartbeatDropped ==
    \A w \in DOMAIN workerBindings, iterations \in 1..MaxIterations :
        LET r == on_mining_message_received(Chain, [origin |-> "Worker", pubkey |-> w],
                                            iterations)
        IN  StaleReport(miners[workerBindings[w]].benchmark, now, iterations) =>
              (r.res # "Panic" /\ r.chain = Chain)

\* C17: Benchmark::update rejects, with no field of the benchmark changed,
\* every report whose updated_at or iterations is not greater than the stored
\* value, and accepts every other report; on an accepted update iterations
\* and updated_at both become the reported, greater values, so over any
\* sequence of reports neither ever decreases.
C17_BenchmarkMonotonic ==
    \A updated_at \in ReportTimes, iterations \in ReportIterations,
       initial_score \in ReportScores :
        LET self == miners["m1"].benchmark
            upd == BenchmarkUpdate(self, updated_at, iterations, initial_score)
        IN  /\ upd.ok <=> ~StaleReport(self, updated_at, iterations)
            /\ ~upd.ok => upd.benchmark = self
            /\ upd.ok =>
                  /\ upd.benchmark.iterations = iterations
                  /\ upd.benchmark.updated_at = updated_at
                  /\ upd.benchmark.iterations > self.iterations
                  /\ upd.benchmark.updated_at > self.updated_at
                  /\ upd.benchmark.mining_start_time = self.mining_start_time

\* A benchmark that has accepted updates, for which one report is stale by
\* its time alone, one by its iterations alone, and one is accepted.
C17_Witness ==
    LET self == miners["m1"].benchmark
    IN  /\ self.updated_at = 100 /\ self.iterations = 11000
        /\ ~BenchmarkUpdate(self, 100, 26000, 600).ok
        /\ ~BenchmarkUpdate(self, 200, 11000, 600).ok
        /\ BenchmarkUpdate(self, 200, 26000, 600).ok

\* C18: on every accepted benchmark update
\* p_instant = min(floor((iterations - prev_iterations) * 6
\*                       / (reportedAt - prev_updated_at)),
\*                 floor(initialScore * 12 / 10)),
\* for all iteration counters and initial scores, so p_instant never exceeds
\* 120% of the initial score.
ExpectedPInstant(self, updated_at, iterations, initial_score) ==
    Min(((iterations - self.iterations) * 6) \div (updated_at - self.updated_at),
        (initial_score * 12) \div 10)
C18_PInstantCapped ==
    \A updated_at \in ReportTimes, iterations \in ReportIterations,
       initial_score \in ReportScores :
        LET self == miners["m1"].benchmark
            upd == BenchmarkUpdate(self, updated_at, iterations, initial_score)
        IN  (upd.ok /\ ~BenchmarkUpdatePanics(self, updated_at, iterations, initial_score)) =>
              /\ upd.benchmark.p_instant =
                    ExpectedPInstant(self, updated_at, iterations, initial_score)
              /\ upd.benchmark.p_instant * 10 <= initial_score * 12

\* C19: in a batch from the gatekeeper every offline, recovered_to_online or
\* settle entry that names a worker with no bound miner is skipped without
\* error and without any state change, and every other entry of the batch is
\* still applied: the batch returns what the batch without those entries
\* returns, leaves the storage that batch leaves and emits the events that
\* batch emits; a batch of such entries alone returns success and changes
\* nothing, and only a failed debug assertion on a bound miner's settle entry
\* keeps a batch from returning success.
Events(o) == SelectSeq(o, LAMBDA x : x.kind = "event")
BoundOnly(event) ==
    [offline |-> SelectSeq(event.offline, LAMBDA w : w \in DOMAIN workerBindings),
     recovered_to_online |->
        SelectSeq(event.recovered_to_online, LAMBDA w : w \in DOMAIN workerBindings),
     settle |-> SelectSeq(event.settle, LAMBDA info : info.pubkey \in DOMAIN workerBindings)]
AssertionFails(event) ==
    /\ debugBuild
    /\ \E i \in 1..Len(BoundOnly(event).settle) :
          LET pubkey == BoundOnly(event).settle[i].pubkey
              moved == \/ \E j \in 1..Len(event.offline) : event.offline[j] = pubkey
                       \/ \E j \in 1..Len(event.recovered_to_online) :
                             event.recovered_to_online[j] = pubkey
          IN  ~moved /\ ~can_settle(miners[workerBindings[pubkey]].state)
C20_BatchTransitions ==
    \A event \in Batches, m \in DOMAIN miners :
        LET r == on_gk_message_received(Chain, [origin |-> "Gatekeeper"], event)
            old == miners[m].state
            new == r.chain.miners[m].state
        IN  /\ new # old =>
                  \/ old \in {"MiningIdle", "MiningActive"} /\ new = "MiningUnresponsive"
                  \/ old = "MiningUnresponsive" /\ new = "MiningIdle"
            /\ old \in {"Ready", "MiningCoolingDown"} => new = old

\* C21: for a settle entry of a batch whose worker is bound, the bound
\* miner's record gets v = the entry's v, v_updated_at = now and total_reward
\* increased by the converted payout, and a MinerSettled event is emitted;
\* the record's state, ve, benchmark and cool_down_start, and every stake and
\* binding, are as the batch without the settle entry leaves them.
Settled(info, before) ==
    [before EXCEPT !.v = info.v,
                   !.v_updated_at = now,
                   !.stats.total_reward = @ + FromBits(info.payout)]
Rewards(o) == SelectSeq(o, LAMBDA x : x.kind = "on_reward")
NumTx(count) == IF count = None THEN 20 ELSE count[1]
Challenges(o) == SelectSeq(o, LAMBDA x : x.kind = "message" /\ x.event.name = "HeartbeatChallenge")
Capped(num_tx, num_workers, secs) == num_tx * (3600 \div secs) > 2 * num_workers
ExpectedFrac(num_tx, num_workers, secs) ==
    IF Capped(num_tx, num_workers, secs) THEN (2 ^ 25) \div (3600 \div secs)
    ELSE (num_tx * (2 ^ 24)) \div num_workers
FormulaTimes == {secs \in BlockTimes : 1 <= secs /\ secs <= 3600}
Example20 ==
    <<7, 7, 1, 9, 4, 6, 5, 2, 5, 3, 9, 5, 8, 3, 0, 9, 7, 8, 4, 9, 7, 0, 0, 2, 5,
      7, 3, 6, 8, 3, 9, 6, 0, 7, 4, 2, 8, 0, 5, 7, 5, 1, 6, 3, 6, 3, 1, 9, 3, 1,
      3, 3, 9, 5, 4, 2, 1, 8, 1, 8, 0, 0, 9, 3, 8, 3, 5, 0, 3, 5, 4, 7, 1, 6, 0>>
Example200000 ==
    <<1, 1, 5, 7, 4, 2, 2, 8, 6, 2, 3, 5, 6, 7, 7, 7, 5, 4, 7, 1, 5, 2, 8, 0, 8,
      5, 5, 8, 1, 0, 3, 8, 5, 7, 1, 6, 8, 3, 7, 6, 0, 5, 0, 9, 7, 4, 6, 3, 2, 9,
      7, 3, 8, 2, 5, 3, 0, 0, 7, 5, 5, 3, 1, 2, 3, 3, 1, 1, 4, 1, 7, 7, 1, 5>>
C24_ThresholdFormula ==
    /\ onlineMiners >= 1 =>
           \A count \in HeartbeatCounts, secs \in FormulaTimes :
               LET r == pow_target(NumTx(count), onlineMiners, secs)
               IN  /\ r.res = "Ok"
                   /\ r.target = DecMul(U256MAXShr24,
                                        ExpectedFrac(NumTx(count), onlineMiners, secs))
                   /\ \A other \in ChallengeMiners \ {0} :
                          /\ Capped(NumTx(count), onlineMiners, secs)
                          /\ Capped(NumTx(count), other, secs)
                          => pow_target(NumTx(count), other, secs).target = r.target
    /\ pow_target(20, 20, 12) = [res |-> "Ok", target |-> Example20]
    /\ pow_target(20, 200000, 12) = [res |-> "Ok", target |-> Example200000]

(***************************************************************************)
(* C25: no record is ever in state MiningActive: every record is Ready,    *)
(* MiningIdle, MiningUnresponsive or MiningCoolingDown.                    *)
(***************************************************************************)
VisibleStates == {"Ready", "MiningIdle", "MiningUnresponsive", "MiningCoolingDown"}
C25_NeverActive ==
    \A m \in DOMAIN miners :
        /\ miners[m].state # "MiningActive"
        /\ miners[m].state \in VisibleStates

\* One miner is mining and was paid by a settlement batch, the other is cooling down.
C25_Witness ==
    /\ DOMAIN miners = AccountIds
    /\ miners["m1"].state = "MiningIdle"
    /\ miners["m1"].stats.total_reward > 0
    /\ miners["m2"].state = "MiningCoolingDown"

(***************************************************************************)
(* C26: a record whose state is not MiningCoolingDown has cool_down_start  *)
(* zero.                                                                   *)
(***************************************************************************)
C26_CoolDownStartZero ==
    \A m \in DOMAIN miners :
        miners[m].state # "MiningCoolingDown" => miners[m].cool_down_start = 0

(***************************************************************************)
(* C27: whenever stop_mining(m) passes its guards (m bound, its record     *)
(* neither Ready nor MiningCoolingDown), OnlineMiners is at least one and  *)
(* the call decrements it without a panic and without wrapping.            *)
(***************************************************************************)
PassesStopGuards(m) ==
    /\ m \in DOMAIN minerBindings
    /\ m \in DOMAIN miners
    /\ miners[m].state \notin {"Ready", "MiningCoolingDown"}
C27_OnlineMinersNoUnderflow ==
    \A m \in AccountIds :
        PassesStopGuards(m) =>
            LET r == stop_mining(Chain, m)
            IN  /\ onlineMiners >= 1
                /\ r.res = "Ok"
                /\ r.chain.onlineMiners = onlineMiners - 1

(***************************************************************************)
(* C28: a record in MiningCoolingDown has a ve other than zero, so that a  *)
(* reclaim that passes its guard never divides by zero.                    *)
(***************************************************************************)
C28_ReclaimDivisorNonZero ==
    \A m \in DOMAIN miners :
        miners[m].state = "MiningCoolingDown" =>
            /\ miners[m].ve # 0
            /\ can_reclaim(miners[m]) => reclaim(Chain, m).res = "Ok"

(***************************************************************************)
(* C29: a stake entry is removed only by a successful reclaim of its       *)
(* account, which hands it to the reclaim observer; no other call removes  *)
(* or changes it, and start_mining succeeds for no account that still has  *)
(* a stake entry.                                                          *)
(***************************************************************************)
StakeKept(r, m) ==
    m \in DOMAIN stakes => m \in DOMAIN r.chain.stakes /\ r.chain.stakes[m] = stakes[m]
C29_StakeNeverLost ==
    /\ \A m \in AccountIds, x \in AccountIds :
           /\ \A w \in WorkerKeys : StakeKept(bind(Chain, x, w), m)
           /\ \A notify \in BOOLEAN : StakeKept(unbind_miner(Chain, x, notify), m)
           /\ StakeKept(stop_mining(Chain, x), m)
           /\ \A stake \in StakeInputs : StakeKept(start_mining(Chain, x, stake), m)
           /\ x # m => StakeKept(reclaim(Chain, x), m)
    /\ \A m \in AccountIds :
           /\ \A sender \in Senders, iterations \in 1..MaxIterations :
                  StakeKept(on_mining_message_received(Chain, sender, iterations), m)
           /\ \A input \in GkInputs :
                  StakeKept(on_gk_message_received(Chain, input[1], input[2]), m)
    /\ \A m \in DOMAIN stakes :
           LET r == reclaim(Chain, m)
           IN  m \notin DOMAIN r.chain.stakes =>
                   /\ r.res = "Ok"
                   /\ Len(Reclaims(r.out)) = 1
                   /\ Reclaims(r.out)[1].miner = m
                   /\ Reclaims(r.out)[1].orig_stake = stakes[m]
    /\ \A m \in AccountIds, stake \in StakeInputs :
           start_mining(Chain, m, stake).res = "Ok" => m \notin DOMAIN stakes

(***************************************************************************)
(* C30: for a record in MiningCoolingDown, once the clock has reached      *)
(* cool_down_start plus the cool down period, reclaim succeeds, sets the   *)
(* record to Ready and hands the stake to the reclaim observer, whether or *)
(* not the miner is still bound.                                           *)
(***************************************************************************)
C30_CoolDownCompletes ==
    \A m \in DOMAIN miners :
        /\ miners[m].state = "MiningCoolingDown"
        /\ now >= miners[m].cool_down_start + coolDownPeriod
        => LET r == reclaim(Chain, m)
           IN  /\ r.res = "Ok"
               /\ r.chain.miners[m].state = "Ready"
               /\ m \notin DOMAIN r.chain.stakes
               /\ Len(Reclaims(r.out)) = 1
               /\ Reclaims(r.out)[1].miner = m
               /\ m \in DOMAIN stakes => Reclaims(r.out)[1].orig_stake = stakes[m]

(***************************************************************************)
(* C31: a call for miner m, bound to worker w, leaves the record, the      *)
(* stake and the binding of every other miner and the binding of every     *)
(* other worker as they were; a settlement batch changes only the records  *)
(* of the miners bound to the workers the batch names.                     *)
(***************************************************************************)
SameEntry(f, g, k) == (k \in DOMAIN f <=> k \in DOMAIN g) /\ (k \in DOMAIN f => f[k] = g[k])
WorkerOf(m) == IF m \in DOMAIN minerBindings THEN minerBindings[m] ELSE "unbound"
MinerOf(w) == IF w \in DOMAIN workerBindings THEN workerBindings[w] ELSE "unbound"
OthersKept(r, m, w) ==
    /\ \A other \in AccountIds \ {m} :
           /\ SameEntry(miners, r.chain.miners, other)
           /\ SameEntry(stakes, r.chain.stakes, other)
           /\ SameEntry(minerBindings, r.chain.minerBindings, other)
    /\ \A other \in WorkerKeys \ {w} :
           SameEntry(workerBindings, r.chain.workerBindings, other)
Named(event) ==
    {event.offline[i] : i \in 1..Len(event.offline)}
        \cup {event.recovered_to_online[i] : i \in 1..Len(event.recovered_to_online)}
        \cup {event.settle[i].pubkey : i \in 1..Len(event.settle)}
C31_OthersUnchanged ==
    /\ \A m \in AccountIds :
           /\ \A w \in WorkerKeys : OthersKept(bind(Chain, m, w), m, w)
           /\ \A notify \in BOOLEAN : OthersKept(unbind_miner(Chain, m, notify), m, WorkerOf(m))
           /\ \A stake \in StakeInputs : OthersKept(start_mining(Chain, m, stake), m, WorkerOf(m))
           /\ OthersKept(stop_mining(Chain, m), m, WorkerOf(m))
           /\ OthersKept(reclaim(Chain, m), m, WorkerOf(m))
    /\ \A sender \in Senders, iterations \in 1..MaxIterations :
           LET r == on_mining_message_received(Chain, sender, iterations)
           IN  IF sender.origin = "Worker"
               THEN OthersKept(r, MinerOf(sender.pubkey), sender.pubkey)
               ELSE r.chain = Chain
    /\ \A input \in GkInputs :
           LET r == on_gk_message_received(Chain, input[1], input[2])
               touched == IF input[1].origin = "Gatekeeper"
                          THEN {MinerOf(w) : w \in Named(input[2])} ELSE {}
           IN  /\ \A other \in AccountIds \ touched :
                      SameEntry(miners, r.chain.miners, other)
               /\ r.chain.stakes = stakes
               /\ r.chain.minerBindings = minerBindings
               /\ r.chain.workerBindings = workerBindings

\* Both miners are bound, m2 is mining on its stake and m1, stopped, has
\* reclaimed: the calls for m1 acted while m2 had a record, a stake and a binding.
C31_Witness ==
    /\ DOMAIN minerBindings = AccountIds
    /\ miners["m2"].state = "MiningIdle"
    /\ "m2" \in DOMAIN stakes
    /\ miners["m1"].state = "Ready"
    /\ miners["m1"].ve # 0
    /\ "m1" \notin DOMAIN stakes

(***************************************************************************)
(* C32: a message sent by osp_sendto without a remote public key travels   *)
(* as Plain and peel returns it; a message sent with the receiver's public *)
(* key travels as Encrypted with the sender's public key and peel with the *)
(* receiver's key returns it; try_next returns None on an empty receiver   *)
(* and otherwise the peeled message with the sequence number and the       *)
(* origin it was received with.                                            *)
(***************************************************************************)
Last(q) == q[Len(q)]
Wrapped(entry) == Decode(entry.payload).value
ForReceiver(wrp) ==
    \/ wrp.tag = "Plain"
    \/ /\ wrp.tag = "Encrypted"
       /\ wrp.cipher.cipher.secret = {wrp.cipher.pubkey.pub, ReceiverKey}
C32_OspRoundTrip ==
    /\ \A key \in SenderKeys, message \in OspMessages, iv \in IVs :
           LET plain == osp_sendto(Channel, key, message, OspTopic, None, iv)
               sealed == osp_sendto(Channel, key, message, OspTopic,
                                    Some(Public(ReceiverKey)), iv)
           IN  /\ plain.res = "Ok"
               /\ Len(plain.mq) = Len(mq) + 1
               /\ Wrapped(Last(plain.mq)).tag = "Plain"
               /\ Wrapped(Last(plain.mq)) = Plain(message)
               /\ peel(ReceiverKey, Wrapped(Last(plain.mq))) = [res |-> "Ok", msg |-> message]
               /\ sealed.res = "Ok"
               /\ Len(sealed.mq) = Len(mq) + 1
               /\ Wrapped(Last(sealed.mq)).tag = "Encrypted"
               /\ Wrapped(Last(sealed.mq)).cipher.pubkey = Public(key)
               /\ peel(ReceiverKey, Wrapped(Last(sealed.mq))) = [res |-> "Ok", msg |-> message]
               /\ PeelingReceiver_try_next(<<Last(sealed.mq)>>, ReceiverKey)
                      = [res |-> "Ok", value |-> Some(<<sequence, message, key>>),
                         queue |-> <<>>]
    /\ mq = <<>> =>
           PeelingReceiver_try_next(mq, ReceiverKey)
               = [res |-> "Ok", value |-> None, queue |-> <<>>]
    /\ mq # <<>> =>
           LET h == Head(mq)
               p == peel(ReceiverKey, Wrapped(h))
               r == PeelingReceiver_try_next(mq, ReceiverKey)
           IN  /\ r.queue = Tail(mq)
               /\ ForReceiver(Wrapped(h)) => p.res = "Ok"
               /\ p.res = "Ok" => r.res = "Ok" /\ r.value = Some(<<h.sequence, p.msg, h.sender>>)
               /\ p.res # "Ok" => r.res = p.res /\ r.value = None

\* The receiver has taken the second message sent, and a message encrypted
\* for it is in flight.
C32_Witness ==
    /\ received.res = "Ok"
    /\ received.value # None
    /\ received.value[1][1] = 1
    /\ mq # <<>>
    /\ Wrapped(Head(mq)).tag = "Encrypted"
    /\ ForReceiver(Wrapped(Head(mq)))

====
